---- MODULE Spec2Model ----
(***************************************************************************)
(* A model of the IRI parser of iri.go.  The parser is a cursor (p.index)  *)
(* over the code points of the input (p.runes); every parser method is a   *)
(* group of actions, one per stretch of code between two calls or loop     *)
(* heads.  pc is the position in the code, stack the return positions of   *)
(* the callers, loc the local variables of the methods and ret the error   *)
(* value returned by the last call.  A run-time panic of the Go program    *)
(* (index or slice bounds out of range) is the state pc = "panic".         *)
(***************************************************************************)
EXTENDS Integers, Sequences, FiniteSets, TLC

VARIABLES value, p, pc, stack, loc, ret

vars == <<value, p, pc, stack, loc, ret>>

(***************************************************************************)
(* Strings are sequences of code points.  AsciiLow lists the printable     *)
(* ASCII characters of codes 32 (the space) to 95 in code order, AsciiHigh *)
(* those of codes 97 to 126.                                               *)
(***************************************************************************)
AsciiLow == " !\"#$%&'()*+,-./0123456789:;<=>?@ABCDEFGHIJKLMNOPQRSTUVWXYZ[\\]^_"
AsciiHigh == "abcdefghijklmnopqrstuvwxyz{|}~"

Ord(c) ==
    IF \E i \in 1..Len(AsciiLow) : SubSeq(AsciiLow, i, i) = c
    THEN 31 + (CHOOSE i \in 1..Len(AsciiLow) : SubSeq(AsciiLow, i, i) = c)
    ELSE 96 + (CHOOSE i \in 1..Len(AsciiHigh) : SubSeq(AsciiHigh, i, i) = c)

Runes(s) == [i \in 1..Len(s) |-> Ord(SubSeq(s, i, i))]

RuneSet(s) == {Ord(SubSeq(s, i, i)) : i \in 1..Len(s)}

(* The number of bytes of the UTF-8 encoding of a code point and of a string. *)
Utf8Len(r) == IF r < 128 THEN 1 ELSE IF r < 2048 THEN 2 ELSE IF r < 65536 THEN 3 ELSE 4

RECURSIVE ByteLen(_)
ByteLen(s) == IF s = <<>> THEN 0 ELSE Utf8Len(Head(s)) + ByteLen(Tail(s))

(***************************************************************************)
(* Character classes.                                                      *)
(***************************************************************************)
alpha == RuneSet("abcdefghijklmnopqrstuvwxyzABCDEFGHIJKLMNOPQRSTUVWXYZ")
digit == RuneSet("0123456789")
unreservedSymbols == RuneSet("-._~")
subDelims == RuneSet("!$&'()*+,;=")

isAlpha(r) == r \in alpha
isDigit(r) == r \in digit
isSubDelim(r) == r \in subDelims
isUnreserved(r) == isAlpha(r) \/ isDigit(r) \/ r \in unreservedSymbols
isHexDigit(r) == r \in RuneSet("abcdefABCDEF") \/ isDigit(r)

(* isSchemeChar with the unreserved symbols "-._~" in place of "-." *)
isSchemeChar_unreserved(r) == isUnreserved(r) \/ r = Ord("+")

(* The condition of schema's loop on a further character of the scheme. *)
isSchemeChar(r) == isAlpha(r) \/ isDigit(r) \/ r \in RuneSet("+-.")

(* The condition of iunreserved on its ASCII characters. *)
isIunreservedAscii(r) == isAlpha(r) \/ isDigit(r) \/ r \in RuneSet("-._~")

isUcsChar(r) ==
    \/ (r >= 160 /\ r <= 55295)
    \/ \E k \in 1..14 : (r >= k * 65536 /\ r <= k * 65536 + 65533)

isIPrivate(r) ==
    \/ (r >= 57344 /\ r <= 63743)
    \/ (r >= 983040 /\ r <= 1048573)
    \/ (r >= 1048576 /\ r <= 1114104)

(***************************************************************************)
(* Error values: nil, EOIError and an IriError with its index and char.    *)
(***************************************************************************)
Nil == [kind |-> "nil", index |-> -1, char |-> 0]
EOIError == [kind |-> "EOI", index |-> -1, char |-> 0]

(***************************************************************************)
(* The cursor.  q is a parser record; current and peek give the rune, the  *)
(* error flag and whether the read of q.runes is out of range (a panic).   *)
(***************************************************************************)
newParser(v) ==
    [runes |-> v, index |-> -1, length |-> ByteLen(v),
     instance |-> [Value |-> <<>>, Scheme |-> <<>>, Authority |-> <<>>,
                   Path |-> <<>>, Query |-> <<>>, Fragment |-> <<>>]]

InRange(q, i) == i >= 0 /\ i < Len(q.runes)

current(q) ==
    IF q.index >= q.length
    THEN [r |-> 0, err |-> TRUE, panic |-> FALSE]
    ELSE IF InRange(q, q.index)
         THEN [r |-> q.runes[q.index + 1], err |-> FALSE, panic |-> FALSE]
         ELSE [r |-> 0, err |-> FALSE, panic |-> TRUE]

peek(q) ==
    IF q.index + 1 = q.length
    THEN [r |-> 0, err |-> TRUE, panic |-> FALSE]
    ELSE IF InRange(q, q.index + 1)
         THEN [r |-> q.runes[q.index + 2], err |-> FALSE, panic |-> FALSE]
         ELSE [r |-> 0, err |-> FALSE, panic |-> TRUE]

(* next: ok is the boolean it returns, q the parser after it. *)
next(q) ==
    IF q.index - 1 < q.length
    THEN [ok |-> TRUE, q |-> [q EXCEPT !.index = @ + 1]]
    ELSE [ok |-> FALSE, q |-> q]

setIndex(q, i) == [q EXCEPT !.index = i]

(* p.runes[a:b]: out of range when not 0 <= a <= b <= cap(p.runes). *)
SliceOk(q, a, b) == 0 <= a /\ a <= b /\ b <= Len(q.runes)
Slice(q, a, b) == SubSeq(q.runes, a + 1, b)

(* newIriError with a one-based index *)
newIriError_oneBased(q) == [kind |-> "IriError", index |-> q.index + 1, char |-> current(q).r]

newIriError(q) == [kind |-> "IriError", index |-> q.index, char |-> current(q).r]

(***************************************************************************)
(* Control: a step inside a method, a call, a return, a panic.             *)
(***************************************************************************)
Goto(l, q, lc) ==
    /\ pc' = l
    /\ p' = q
    /\ loc' = lc
    /\ UNCHANGED <<value, stack, ret>>

Call(f, back, q, lc) ==
    /\ pc' = f
    /\ stack' = <<back>> \o stack
    /\ p' = q
    /\ loc' = lc
    /\ UNCHANGED <<value, ret>>

Return(e, q) ==
    /\ pc' = IF stack = <<>> THEN "done" ELSE Head(stack)
    /\ stack' = IF stack = <<>> THEN stack ELSE Tail(stack)
    /\ ret' = e
    /\ p' = q
    /\ UNCHANGED <<value, loc>>

Panic ==
    /\ pc' = "panic"
    /\ UNCHANGED <<value, p, stack, loc, ret>>

(* return newIriError(p, ...): newIriError reads the current rune. *)
ReturnIriError(q) == IF current(q).panic THEN Panic ELSE Return(newIriError(q), q)

(* if !p.next() { return EOIError }, then K of the advanced parser. *)
NextOrEOI(q, K(_)) == IF next(q).ok THEN K(next(q).q) ELSE Return(EOIError, q)

(***************************************************************************)
(* ParseIri, parse and iri.                                                *)
(***************************************************************************)
(* p := newParser(value) is the initial state; p.next(); return p.parse() *)
ParseIri ==
    /\ pc = "ParseIri"
    /\ Goto("parse", next(p).q, loc)

parse ==
    /\ pc = "parse"
    /\ Call("iri", "parse_1", p, loc)

parse_1 ==
    /\ pc = "parse_1"
    /\ IF ret.kind # "nil"
       THEN Return(ret, p)
       ELSE Return(Nil, [p EXCEPT !.instance.Value = p.runes])

iri ==
    /\ pc = "iri"
    /\ Call("schema", "iri_1", p, loc)

iri_1 ==
    /\ pc = "iri_1"
    /\ IF ret.kind # "nil" THEN Return(ret, p)
       ELSE IF current(p).panic THEN Panic
       ELSE IF current(p).r # Ord(":") THEN ReturnIriError(p)
       ELSE NextOrEOI(p, LAMBDA q : Call("ihierPart", "iri_2", q, loc))

iri_2 ==
    /\ pc = "iri_2"
    /\ IF ret.kind # "nil"
       THEN IF ret.kind = "EOI" THEN Return(Nil, p) ELSE Return(ret, p)
       ELSE IF current(p).panic THEN Panic
       ELSE IF current(p).r = Ord("?")
            THEN NextOrEOI(p, LAMBDA q : Call("iquery", "iri_3", q, loc))
       ELSE IF current(p).r = Ord("#")
            THEN NextOrEOI(p, LAMBDA q : Call("ifragment", "iri_3", q, loc))
       ELSE Return(Nil, p)

(* after p.iquery() or p.ifragment(): return nil *)
iri_3 ==
    /\ pc = "iri_3"
    /\ Return(Nil, p)

(***************************************************************************)
(* schema                                                                  *)
(***************************************************************************)
schema ==
    /\ pc = "schema"
    /\ IF current(p).panic THEN Panic
       ELSE IF ~isAlpha(current(p).r) THEN ReturnIriError(p)
       ELSE NextOrEOI(p, LAMBDA q :
                Goto("schema_loop", q, [loc EXCEPT !.schemaRunes = <<current(p).r>>]))

schema_loop ==
    /\ pc = "schema_loop"
    /\ IF current(p).panic THEN Panic
       ELSE IF isSchemeChar(current(p).r)
            THEN LET runes == Append(loc.schemaRunes, current(p).r) IN
                 IF next(p).ok
                 THEN Goto("schema_loop", next(p).q, [loc EXCEPT !.schemaRunes = runes])
                 ELSE Return(Nil, [p EXCEPT !.instance.Scheme = runes])
            ELSE Return(Nil, [p EXCEPT !.instance.Scheme = loc.schemaRunes])

(***************************************************************************)
(* ihierPart                                                               *)
(***************************************************************************)
ihierPart ==
    /\ pc = "ihierPart"
    /\ LET lc == [loc EXCEPT !.ihierPart_preIndex = p.index] IN
       IF current(p).panic \/ peek(p).panic THEN Panic
       ELSE IF ~peek(p).err /\ current(p).r = Ord("/") /\ peek(p).r = Ord("/")
            THEN NextOrEOI(next(p).q, LAMBDA q : Call("iauthority", "ihierPart_1", q, lc))
            ELSE Goto("ihierPart_3", p, lc)

ihierPart_1 ==
    /\ pc = "ihierPart_1"
    /\ IF ret.kind = "nil"
       THEN Call("ipathAbEmpty", "ihierPart_2", p, loc)
       ELSE Goto("ihierPart_3", p, loc)

ihierPart_2 ==
    /\ pc = "ihierPart_2"
    /\ IF ret.kind = "nil"
       THEN Return(Nil, p)
       ELSE Goto("ihierPart_3", p, loc)

ihierPart_3 ==
    /\ pc = "ihierPart_3"
    /\ Call("ipathAbsolute", "ihierPart_4", setIndex(p, loc.ihierPart_preIndex), loc)

ihierPart_4 ==
    /\ pc = "ihierPart_4"
    /\ IF ret.kind = "nil"
       THEN NextOrEOI(p, LAMBDA q : Return(Nil, q))
       ELSE Call("ipathRootless", "ihierPart_5", setIndex(p, loc.ihierPart_preIndex), loc)

ihierPart_5 ==
    /\ pc = "ihierPart_5"
    /\ IF ret.kind = "nil"
       THEN NextOrEOI(p, LAMBDA q : Return(Nil, q))
       ELSE Call("ipathEmpty", "ihierPart_6", setIndex(p, loc.ihierPart_preIndex), loc)

ihierPart_6 ==
    /\ pc = "ihierPart_6"
    /\ IF ret.kind # "nil" THEN ReturnIriError(p) ELSE Return(Nil, p)

(***************************************************************************)
(* iauthority, iuserInfo, ihost, iregName                                  *)
(***************************************************************************)
iauthority ==
    /\ pc = "iauthority"
    /\ Call("iuserInfo", "iauthority_1", p,
            [loc EXCEPT !.authStart = p.index, !.iauthority_preIndex = p.index])

(* iauthority_1 without p.index = preIndex when the user info is not followed by '@' *)
iauthority_1_noRollback ==
    /\ pc = "iauthority_1"
    /\ IF ret.kind = "nil"
       THEN IF current(p).panic THEN Panic
            ELSE IF current(p).r = Ord("@")
                 THEN NextOrEOI(p, LAMBDA q : Call("ihost", "iauthority_2", q, loc))
                 ELSE Call("ihost", "iauthority_2", p, loc)
       ELSE Call("ihost", "iauthority_2", setIndex(p, loc.iauthority_preIndex), loc)

iauthority_1 ==
    /\ pc = "iauthority_1"
    /\ IF ret.kind = "nil"
       THEN IF current(p).panic THEN Panic
            ELSE IF current(p).r = Ord("@")
                 THEN NextOrEOI(p, LAMBDA q : Call("ihost", "iauthority_2", q, loc))
                 ELSE Call("ihost", "iauthority_2", setIndex(p, loc.iauthority_preIndex), loc)
       ELSE Call("ihost", "iauthority_2", setIndex(p, loc.iauthority_preIndex), loc)

iauthority_2 ==
    /\ pc = "iauthority_2"
    /\ LET lc == [loc EXCEPT !.iauthority_preIndex = p.index] IN
       IF current(p).panic THEN Panic
       ELSE IF current(p).r = Ord(":")
            THEN Call("port", "iauthority_3", p, lc)
            ELSE Goto("iauthority_4", p, lc)

iauthority_3 ==
    /\ pc = "iauthority_3"
    /\ IF ret.kind # "nil"
       THEN Goto("iauthority_4", setIndex(p, loc.iauthority_preIndex), loc)
       ELSE Goto("iauthority_4", p, loc)

(* authRunes := p.runes[authStart:p.index] *)
iauthority_4 ==
    /\ pc = "iauthority_4"
    /\ IF ~SliceOk(p, loc.authStart, p.index) THEN Panic
       ELSE Return(Nil, [p EXCEPT !.instance.Authority = Slice(p, loc.authStart, p.index)])

iuserInfo ==
    /\ pc = "iuserInfo"
    /\ Call("iunreserved", "iuserInfo_1", p, [loc EXCEPT !.iuserInfo_preIndex = p.index])

iuserInfo_1 ==
    /\ pc = "iuserInfo_1"
    /\ IF ret.kind = "nil"
       THEN NextOrEOI(p, LAMBDA q : Goto("iuserInfo", q, loc))
       ELSE Call("pctEncoded", "iuserInfo_2", setIndex(p, loc.iuserInfo_preIndex), loc)

iuserInfo_2 ==
    /\ pc = "iuserInfo_2"
    /\ IF ret.kind = "nil"
       THEN NextOrEOI(p, LAMBDA q : Goto("iuserInfo", q, loc))
       ELSE LET q0 == setIndex(p, loc.iuserInfo_preIndex) IN
            IF current(q0).panic THEN Panic
            ELSE IF isSubDelim(current(q0).r) \/ current(q0).r = Ord(":")
                 THEN NextOrEOI(q0, LAMBDA q : Goto("iuserInfo", q, loc))
                 ELSE Return(Nil, q0)

ihost ==
    /\ pc = "ihost"
    /\ Call("ipLiteral", "ihost_1", p, [loc EXCEPT !.ihost_preIndex = p.index])

ihost_1 ==
    /\ pc = "ihost_1"
    /\ IF ret.kind = "nil"
       THEN Return(ret, p)
       ELSE Call("ipv4Address", "ihost_2", setIndex(p, loc.ihost_preIndex), loc)

ihost_2 ==
    /\ pc = "ihost_2"
    /\ IF ret.kind = "nil"
       THEN Return(ret, p)
       ELSE Call("iregName", "ihost_3", setIndex(p, loc.ihost_preIndex), loc)

ihost_3 ==
    /\ pc = "ihost_3"
    /\ Return(ret, p)

iregName ==
    /\ pc = "iregName"
    /\ Call("iunreserved", "iregName_1", p, [loc EXCEPT !.iregName_preIndex = p.index])

iregName_1 ==
    /\ pc = "iregName_1"
    /\ IF ret.kind # "nil"
       THEN Call("pctEncoded", "iregName_2", setIndex(p, loc.iregName_preIndex), loc)
       ELSE IF next(p).ok THEN Goto("iregName", next(p).q, loc) ELSE Return(ret, p)

iregName_2 ==
    /\ pc = "iregName_2"
    /\ LET q0 == IF ret.kind # "nil" THEN setIndex(p, loc.iregName_preIndex) ELSE p IN
       IF ret.kind # "nil" /\ current(q0).panic THEN Panic
       ELSE IF ret.kind # "nil" /\ ~isSubDelim(current(q0).r) THEN Return(ret, q0)
       ELSE IF next(q0).ok THEN Goto("iregName", next(q0).q, loc) ELSE Return(ret, q0)

(***************************************************************************)
(* The paths: ipathAbEmpty, ipathAbsolute, ipathRootless, ipathEmpty       *)
(***************************************************************************)
ipathAbEmpty ==
    /\ pc = "ipathAbEmpty"
    /\ Goto("ipathAbEmpty_loop", p, [loc EXCEPT !.ipathAbEmpty_startIndex = p.index])

ipathAbEmpty_loop ==
    /\ pc = "ipathAbEmpty_loop"
    /\ IF current(p).panic THEN Panic
       ELSE IF current(p).err \/ current(p).r # Ord("/")
            THEN Goto("ipathAbEmpty_end", p, loc)
            ELSE NextOrEOI(p, LAMBDA q :
                     Call("isegment", "ipathAbEmpty_1", q, [loc EXCEPT !.ipathAbEmpty_i = q.index]))

ipathAbEmpty_1 ==
    /\ pc = "ipathAbEmpty_1"
    /\ IF loc.ipathAbEmpty_i = p.index
       THEN Goto("ipathAbEmpty_end", p, loc)
       ELSE Goto("ipathAbEmpty_loop", p, loc)

ipathAbEmpty_end ==
    /\ pc = "ipathAbEmpty_end"
    /\ IF ~SliceOk(p, loc.ipathAbEmpty_startIndex, p.index) THEN Panic
       ELSE Return(Nil, [p EXCEPT !.instance.Path =
                                     Slice(p, loc.ipathAbEmpty_startIndex, p.index)])

ipathAbsolute ==
    /\ pc = "ipathAbsolute"
    /\ IF current(p).panic THEN Panic
       ELSE IF current(p).r # Ord("/") THEN ReturnIriError(p)
       ELSE NextOrEOI(p, LAMBDA q :
                Call("isegmentNz", "ipathAbsolute_1", q,
                     [loc EXCEPT !.ipathAbsolute_startIndex = p.index,
                                 !.ipathAbsolute_preIndex = q.index]))

ipathAbsolute_1 ==
    /\ pc = "ipathAbsolute_1"
    /\ IF ret.kind # "nil"
       THEN Goto("ipathAbsolute_end", setIndex(p, loc.ipathAbsolute_preIndex), loc)
       ELSE Goto("ipathAbsolute_loop", p, loc)

ipathAbsolute_loop ==
    /\ pc = "ipathAbsolute_loop"
    /\ IF current(p).panic THEN Panic
       ELSE IF current(p).r # Ord("/")
            THEN Goto("ipathAbsolute_end", p, loc)
            ELSE NextOrEOI(p, LAMBDA q :
                     Call("isegment", "ipathAbsolute_2", q, [loc EXCEPT !.ipathAbsolute_i = q.index]))

ipathAbsolute_2 ==
    /\ pc = "ipathAbsolute_2"
    /\ IF loc.ipathAbsolute_i = p.index
       THEN Goto("ipathAbsolute_end", p, loc)
       ELSE Goto("ipathAbsolute_loop", p, loc)

ipathAbsolute_end ==
    /\ pc = "ipathAbsolute_end"
    /\ IF ~SliceOk(p, loc.ipathAbsolute_startIndex, p.index) THEN Panic
       ELSE LET q0 == [p EXCEPT !.instance.Path =
                                   Slice(p, loc.ipathAbsolute_startIndex, p.index)] IN
            NextOrEOI(q0, LAMBDA q : Return(Nil, q))

ipathRootless ==
    /\ pc = "ipathRootless"
    /\ Call("isegmentNz", "ipathRootless_1", p, [loc EXCEPT !.ipathRootless_preIndex = p.index])

ipathRootless_1 ==
    /\ pc = "ipathRootless_1"
    /\ IF ret.kind # "nil"
       THEN Return(ret, setIndex(p, loc.ipathRootless_preIndex))
       ELSE NextOrEOI(p, LAMBDA q :
                Goto("ipathRootless_loop", q, [loc EXCEPT !.ipathRootless_preIndex = q.index]))

ipathRootless_loop ==
    /\ pc = "ipathRootless_loop"
    /\ IF current(p).panic THEN Panic
       ELSE IF current(p).err
            THEN Return(EOIError, setIndex(p, loc.ipathRootless_preIndex))
       ELSE IF current(p).r # Ord("/")
            THEN ReturnIriError(setIndex(p, loc.ipathRootless_preIndex))
       ELSE Call("isegment", "ipathRootless_2", p, loc)

ipathRootless_2 ==
    /\ pc = "ipathRootless_2"
    /\ IF next(p).ok THEN Goto("ipathRootless_loop", next(p).q, loc) ELSE Return(Nil, p)

ipathEmpty ==
    /\ pc = "ipathEmpty"
    /\ IF current(p).panic THEN Panic
       ELSE IF current(p).err THEN Return(EOIError, p) ELSE Return(Nil, p)

(***************************************************************************)
(* isegment, isegmentNz, ipchar                                            *)
(***************************************************************************)
isegment ==
    /\ pc = "isegment"
    /\ Call("ipchar", "isegment_1", p, [loc EXCEPT !.isegment_preIndex = p.index])

isegment_1 ==
    /\ pc = "isegment_1"
    /\ IF ret.kind = "nil"
       THEN Goto("isegment", p, loc)
       ELSE Return(ret, setIndex(p, loc.isegment_preIndex))

isegmentNz ==
    /\ pc = "isegmentNz"
    /\ Goto("isegmentNz_loop", p, [loc EXCEPT !.isegmentNz_i = 0, !.isegmentNz_preIndex = p.index])

isegmentNz_loop ==
    /\ pc = "isegmentNz_loop"
    /\ Call("ipchar", "isegmentNz_1", p, loc)

isegmentNz_1 ==
    /\ pc = "isegmentNz_1"
    /\ IF ret.kind = "nil"
       THEN Goto("isegmentNz_loop", p,
                 [loc EXCEPT !.isegmentNz_i = @ + 1, !.isegmentNz_preIndex = p.index])
       ELSE LET q0 == setIndex(p, loc.isegmentNz_preIndex) IN
            IF loc.isegmentNz_i < 1 THEN ReturnIriError(q0) ELSE Return(Nil, q0)

ipchar ==
    /\ pc = "ipchar"
    /\ Call("iunreserved", "ipchar_1", p, [loc EXCEPT !.ipchar_preIndex = p.index])

ipchar_1 ==
    /\ pc = "ipchar_1"
    /\ IF ret.kind = "nil"
       THEN Return(Nil, p)
       ELSE Call("pctEncoded", "ipchar_2", setIndex(p, loc.ipchar_preIndex), loc)

ipchar_2 ==
    /\ pc = "ipchar_2"
    /\ IF ret.kind = "nil"
       THEN Return(Nil, p)
       ELSE LET q0 == setIndex(p, loc.ipchar_preIndex) IN
            IF current(q0).panic THEN Panic
            ELSE IF isSubDelim(current(q0).r) \/ current(q0).r = Ord(":") \/ current(q0).r = Ord("@")
                 THEN Return(Nil, next(q0).q)
                 ELSE ReturnIriError(q0)

(***************************************************************************)
(* iquery, ifragment                                                       *)
(***************************************************************************)
iquery ==
    /\ pc = "iquery"
    /\ Goto("iquery_loop", p, [loc EXCEPT !.iquery_startIndex = p.index])

iquery_loop ==
    /\ pc = "iquery_loop"
    /\ Call("ipchar", "iquery_1", p, [loc EXCEPT !.iquery_preIndex = p.index])

iquery_1 ==
    /\ pc = "iquery_1"
    /\ IF ret.kind = "nil"
       THEN Goto("iquery_loop", p, loc)
       ELSE Call("iprivate", "iquery_2", setIndex(p, loc.iquery_preIndex), loc)

iquery_2 ==
    /\ pc = "iquery_2"
    /\ IF ret.kind = "nil"
       THEN Goto("iquery_loop", p, loc)
       ELSE LET q0 == setIndex(p, loc.iquery_preIndex) IN
            IF current(q0).panic THEN Panic
            ELSE IF current(q0).r = Ord("/") \/ current(q0).r = Ord("?")
                 THEN IF next(q0).ok
                      THEN Goto("iquery_loop", next(q0).q, loc)
                      ELSE Return(ret, q0)
            ELSE IF ~SliceOk(q0, loc.iquery_startIndex, q0.index) THEN Panic
            ELSE Return(ret, [q0 EXCEPT !.instance.Query =
                                           Slice(q0, loc.iquery_startIndex, q0.index)])

ifragment ==
    /\ pc = "ifragment"
    /\ Goto("ifragment_loop", p, [loc EXCEPT !.ifragment_startIndex = p.index])

ifragment_loop ==
    /\ pc = "ifragment_loop"
    /\ Call("ipchar", "ifragment_1", p, [loc EXCEPT !.ifragment_preIndex = p.index])

ifragment_1 ==
    /\ pc = "ifragment_1"
    /\ IF ret.kind = "nil"
       THEN Goto("ifragment_loop", p, loc)
       ELSE LET q0 == setIndex(p, loc.ifragment_preIndex) IN
            IF current(q0).panic THEN Panic
            ELSE IF current(q0).r = Ord("/") \/ current(q0).r = Ord("?")
                 THEN Goto("ifragment_loop", q0, loc)
            ELSE IF ~SliceOk(q0, loc.ifragment_startIndex, q0.index) THEN Panic
            ELSE Return(ret, [q0 EXCEPT !.instance.Fragment =
                                           Slice(q0, loc.ifragment_startIndex, q0.index)])

(***************************************************************************)
(* iunreserved, ucschar, iprivate, pctEncoded                              *)
(***************************************************************************)
iunreserved ==
    /\ pc = "iunreserved"
    /\ IF current(p).panic THEN Panic
       ELSE IF isIunreservedAscii(current(p).r)
            THEN NextOrEOI(p, LAMBDA q : Return(Nil, q))
            ELSE Call("ucschar", "iunreserved_1", p, loc)

iunreserved_1 ==
    /\ pc = "iunreserved_1"
    /\ IF ret.kind # "nil" THEN Return(ret, p) ELSE ReturnIriError(p)

ucschar ==
    /\ pc = "ucschar"
    /\ IF current(p).panic THEN Panic
       ELSE IF isUcsChar(current(p).r) THEN Return(Nil, p) ELSE ReturnIriError(p)

iprivate ==
    /\ pc = "iprivate"
    /\ IF current(p).panic THEN Panic
       ELSE IF isIPrivate(current(p).r) THEN Return(Nil, p) ELSE ReturnIriError(p)

pctEncoded ==
    /\ pc = "pctEncoded"
    /\ IF current(p).panic THEN Panic
       ELSE IF current(p).r # Ord("%") THEN ReturnIriError(p)
       ELSE NextOrEOI(p, LAMBDA q : Goto("pctEncoded_1", q, loc))

pctEncoded_1 ==
    /\ pc = "pctEncoded_1"
    /\ IF current(p).panic THEN Panic
       ELSE IF ~isHexDigit(current(p).r) THEN ReturnIriError(p)
       ELSE NextOrEOI(p, LAMBDA q : Goto("pctEncoded_2", q, loc))

(* pctEncoded_2 without the test of the second hex digit *)
pctEncoded_2_anyRune ==
    /\ pc = "pctEncoded_2"
    /\ IF current(p).panic THEN Panic
       ELSE NextOrEOI(p, LAMBDA q : Return(Nil, q))

pctEncoded_2 ==
    /\ pc = "pctEncoded_2"
    /\ IF current(p).panic THEN Panic
       ELSE IF ~isHexDigit(current(p).r) THEN ReturnIriError(p)
       ELSE NextOrEOI(p, LAMBDA q : Return(Nil, q))

(***************************************************************************)
(* port                                                                    *)
(***************************************************************************)
(* strconv.Atoi of a run of digits *)
RECURSIVE Atoi(_)
Atoi(ds) == IF ds = <<>> THEN 0 ELSE 10 * Atoi(SubSeq(ds, 1, Len(ds) - 1)) + (ds[Len(ds)] - Ord("0"))

port ==
    /\ pc = "port"
    /\ Goto("port_loop", p, [loc EXCEPT !.port_count = 0, !.port_digits = <<>>])

port_loop ==
    /\ pc = "port_loop"
    /\ IF current(p).panic THEN Panic
       ELSE IF isDigit(current(p).r)
            THEN LET lc == [loc EXCEPT !.port_count = @ + 1,
                                       !.port_digits = Append(@, current(p).r)] IN
                 IF next(p).ok THEN Goto("port_loop", next(p).q, lc) ELSE Goto("port_end", p, lc)
            ELSE Goto("port_end", p, loc)

port_end ==
    /\ pc = "port_end"
    /\ IF loc.port_count = 0 THEN ReturnIriError(p)
       ELSE IF loc.port_count > 5 THEN ReturnIriError(p)
       ELSE IF Atoi(loc.port_digits) > 65535 THEN ReturnIriError(p)
       ELSE Return(Nil, next(p).q)

(***************************************************************************)
(* ipLiteral, ipvFuture, ipv6Address, h16                                  *)
(***************************************************************************)
ipLiteral ==
    /\ pc = "ipLiteral"
    /\ IF current(p).panic THEN Panic
       ELSE IF current(p).r # Ord("[") THEN ReturnIriError(p)
       ELSE NextOrEOI(p, LAMBDA q :
                Call("ipv6Address", "ipLiteral_1", q, [loc EXCEPT !.ipLiteral_preIndex = q.index]))

ipLiteral_1 ==
    /\ pc = "ipLiteral_1"
    /\ IF ret.kind # "nil"
       THEN Call("ipvFuture", "ipLiteral_2", setIndex(p, loc.ipLiteral_preIndex), loc)
       ELSE Goto("ipLiteral_3", p, loc)

ipLiteral_2 ==
    /\ pc = "ipLiteral_2"
    /\ IF ret.kind # "nil" THEN ReturnIriError(p) ELSE Goto("ipLiteral_3", p, loc)

ipLiteral_3 ==
    /\ pc = "ipLiteral_3"
    /\ IF current(p).panic THEN Panic
       ELSE IF current(p).r # Ord("]") THEN ReturnIriError(p)
       ELSE Return(Nil, next(p).q)

ipvFuture ==
    /\ pc = "ipvFuture"
    /\ IF current(p).panic THEN Panic
       ELSE IF current(p).r # Ord("v") THEN ReturnIriError(p)
       ELSE Goto("ipvFuture_loop", p, [loc EXCEPT !.h16Count = 0])

ipvFuture_loop ==
    /\ pc = "ipvFuture_loop"
    /\ Call("h16", "ipvFuture_1", next(p).q, loc)

ipvFuture_1 ==
    /\ pc = "ipvFuture_1"
    /\ IF ret.kind = "nil"
       THEN Goto("ipvFuture_loop", p, [loc EXCEPT !.h16Count = @ + 1])
       ELSE IF loc.h16Count < 1 THEN ReturnIriError(p)
       ELSE IF current(p).panic THEN Panic
       ELSE IF current(p).r # Ord(".") THEN ReturnIriError(p)
       ELSE Goto("ipvFuture_post", next(p).q, [loc EXCEPT !.postCount = 0])

ipvFuture_post ==
    /\ pc = "ipvFuture_post"
    /\ IF current(p).panic THEN Panic
       ELSE IF isUnreserved(current(p).r) \/ isSubDelim(current(p).r) \/ current(p).r = Ord(":")
            THEN NextOrEOI(p, LAMBDA q : Goto("ipvFuture_post", q, [loc EXCEPT !.postCount = @ + 1]))
       ELSE IF loc.postCount < 1 THEN ReturnIriError(p)
       ELSE Return(Nil, p)

ipv6Address ==
    /\ pc = "ipv6Address"
    /\ Goto("ipv6Address_loop", p,
            [loc EXCEPT !.groupCount = 0, !.zeroCollapse = FALSE, !.prevColon = FALSE])

ipv6Address_loop ==
    /\ pc = "ipv6Address_loop"
    /\ IF current(p).panic THEN Panic
       ELSE IF current(p).r = Ord(":")
            THEN IF loc.prevColon
                 THEN IF loc.zeroCollapse
                      THEN ReturnIriError(p)
                      ELSE Goto("ipv6Address_2", p,
                                [loc EXCEPT !.zeroCollapse = TRUE, !.prevColon = TRUE])
                 ELSE IF loc.zeroCollapse
                      THEN ReturnIriError(p)
                      ELSE Goto("ipv6Address_2", p, [loc EXCEPT !.prevColon = TRUE])
            ELSE Call("h16", "ipv6Address_1", p, [loc EXCEPT !.prevColon = FALSE])

ipv6Address_1 ==
    /\ pc = "ipv6Address_1"
    /\ IF ret.kind # "nil"
       THEN IF loc.groupCount < 8
            THEN IF loc.zeroCollapse THEN Return(Nil, p) ELSE ReturnIriError(p)
            ELSE Return(Nil, next(p).q)
       ELSE Goto("ipv6Address_2", p, [loc EXCEPT !.groupCount = @ + 1])

ipv6Address_2 ==
    /\ pc = "ipv6Address_2"
    /\ IF loc.groupCount = 8
       THEN Return(Nil, next(p).q)
       ELSE NextOrEOI(p, LAMBDA q : Goto("ipv6Address_loop", q, loc))

h16 ==
    /\ pc = "h16"
    /\ IF current(p).panic THEN Panic
       ELSE IF ~isHexDigit(current(p).r) THEN ReturnIriError(p)
       ELSE Goto("h16_loop", p, [loc EXCEPT !.hexCount = 1])

h16_loop ==
    /\ pc = "h16_loop"
    /\ IF loc.hexCount < 4
       THEN IF peek(p).panic THEN Panic
            ELSE IF peek(p).err THEN Return(Nil, p)
            ELSE IF isHexDigit(peek(p).r)
                 THEN NextOrEOI(p, LAMBDA q : Goto("h16_loop", q, [loc EXCEPT !.hexCount = @ + 1]))
                 ELSE Return(Nil, p)
       ELSE Return(Nil, p)

(***************************************************************************)
(* ipv4Address, decOctet                                                   *)
(***************************************************************************)
ipv4Address ==
    /\ pc = "ipv4Address"
    /\ Goto("ipv4Address_loop", p, [loc EXCEPT !.octCount = 0])

ipv4Address_loop ==
    /\ pc = "ipv4Address_loop"
    /\ IF loc.octCount < 4
       THEN Call("decOctet", "ipv4Address_1", p, loc)
       ELSE Return(Nil, p)

ipv4Address_1 ==
    /\ pc = "ipv4Address_1"
    /\ IF ret.kind # "nil" /\ ret.kind # "EOI" THEN Return(ret, p)
       ELSE LET lc == [loc EXCEPT !.octCount = @ + 1] IN
            IF lc.octCount = 4 THEN Return(Nil, p)
            ELSE IF current(p).panic THEN Panic
            ELSE IF current(p).r # Ord(".") THEN ReturnIriError(p)
            ELSE NextOrEOI(p, LAMBDA q : Goto("ipv4Address_loop", q, lc))

(* the first digit of the octet *)
decOctet ==
    /\ pc = "decOctet"
    /\ IF current(p).panic THEN Panic
       ELSE IF ~isDigit(current(p).r) THEN ReturnIriError(p)
       ELSE LET lc == [loc EXCEPT !.octetRunes = <<current(p).r>>] IN
            IF peek(p).panic THEN Panic
            ELSE IF peek(p).err \/ ~isDigit(peek(p).r)
                 THEN NextOrEOI(p, LAMBDA q : Return(Nil, q))
                 ELSE NextOrEOI(p, LAMBDA q : Goto("decOctet_2", q, lc))

(* the second digit *)
decOctet_2 ==
    /\ pc = "decOctet_2"
    /\ IF current(p).panic THEN Panic
       ELSE LET lc == [loc EXCEPT !.octetRunes = Append(@, current(p).r)] IN
            IF Atoi(lc.octetRunes) < 10 THEN ReturnIriError(p)
            ELSE IF peek(p).panic THEN Panic
            ELSE IF peek(p).err \/ ~isDigit(peek(p).r)
                 THEN NextOrEOI(p, LAMBDA q : Return(Nil, q))
                 ELSE NextOrEOI(p, LAMBDA q : Goto("decOctet_3", q, lc))

(* decOctet_3 without the upper limit 255 of the octet *)
decOctet_3_noMax ==
    /\ pc = "decOctet_3"
    /\ IF current(p).panic THEN Panic
       ELSE LET d == Atoi(Append(loc.octetRunes, current(p).r)) IN
            IF d < 100 THEN ReturnIriError(p)
            ELSE IF peek(p).panic THEN Panic
            ELSE IF peek(p).err THEN Return(Nil, p)
            ELSE IF isDigit(peek(p).r) THEN ReturnIriError(p)
            ELSE NextOrEOI(p, LAMBDA q : Return(Nil, q))

(* the third digit *)
decOctet_3 ==
    /\ pc = "decOctet_3"
    /\ IF current(p).panic THEN Panic
       ELSE LET d == Atoi(Append(loc.octetRunes, current(p).r)) IN
            IF d < 100 \/ d > 255 THEN ReturnIriError(p)
            ELSE IF peek(p).panic THEN Panic
            ELSE IF peek(p).err THEN Return(Nil, p)
            ELSE IF isDigit(peek(p).r) THEN ReturnIriError(p)
            ELSE NextOrEOI(p, LAMBDA q : Return(Nil, q))

(***************************************************************************)
(* The inputs and the specification.                                       *)
(***************************************************************************)
(* the inputs of TestParseIri *)
TestInputs ==
    { Runes("ftp://ftp.is.co.za/rfc/rfc1808.txt"),
      Runes("http://www.ietf.org/rfc/rfc2396.txt"),
      Runes("ldap://[2001:db8::7]/c=GB?objectClass?one"),
      Runes("mailto:John.Doe@example.com"),
      Runes("news:comp.infosystems.www.servers.unix"),
      Runes("tel:+1-816-555-1212"),
      Runes("telnet://192.0.2.16:80/"),
      Runes("urn:oasis:names:specification:docbook:dtd:xml:4.1.2") }

MaxScheme == 3
MaxHost == 3
MaxPath == 3
MaxTail == 2

SeqsUpTo(S, n) == UNION {[1..k -> S] : k \in 0..n}

(* every short string of scheme characters, ':' and '~', alone and before "/p" *)
SchemeInputs ==
    {s \o rest : s \in SeqsUpTo(RuneSet("a1+:~"), MaxScheme), rest \in {<<>>, Runes("/p")}}

(* "a://" host [":" port] [path] *)
Hosts ==
    SeqsUpTo(RuneSet("h"), MaxHost)
        \cup {Runes(h) : h \in {"1.1.1.1", "10.255.100.9", "256.1.1.1", "[::1]",
                                "[1:2:3:4:5:6:7:8]", "[v1.a]", "[v1.]", "[::1", "u@hh", "%41h"}}

Ports == {Runes(n) : n \in {"", ":", ":1", ":80", ":65535", ":65536", ":123456"}}

AuthorityInputs ==
    {Runes("a://") \o h \o n \o t : h \in Hosts, n \in Ports,
                                    t \in {Runes(x) : x \in {"", "/p", "/pq"}}}

(* "a:" path ["?q"] ["#f"] *)
PathInputs ==
    {Runes("a:") \o t \o q \o f : t \in SeqsUpTo(RuneSet("/p"), MaxPath),
                                  q \in {<<>>, Runes("?q")}, f \in {<<>>, Runes("#f")}}

(* "a:" hier-part ("?" / "#") tail; 57344 is U+E000, an iprivate code point *)
TailInputs ==
    {Runes("a:") \o h \o d \o t : h \in {Runes(x) : x \in {"", "/p", "p", "//hh", "//hh/p"}},
                                  d \in {Runes("?"), Runes("#")},
                                  t \in SeqsUpTo(RuneSet("q/?#") \cup {57344}, MaxTail)}

(* code points that no production allows where they stand; 233 is U+00E9, a ucschar *)
OtherInputs ==
    {Runes("a:") \o Runes(x) \o y :
        x \in {"", "/", "/p", "p", "//hh", "//hh/", "?", "#"},
        y \in {Runes(z) : z \in {" ", "<", "[", "%", "%z", "%4", "%41", "%4g"}} \cup {<<233>>}}

(* "a://" user-info ["@"] host: user infos of up to MaxUser characters of "u:!" *)
MaxUser == 3

UserInfoInputs ==
    {Runes("a://") \o u \o a \o h :
        u \in SeqsUpTo(RuneSet("u:!"), MaxUser) \cup {Runes("%41"), Runes("%4")},
        a \in {<<>>, Runes("@")},
        h \in {Runes(x) : x \in {"hh", "hh/p", "1.1.1.1", "[::1]"}}}

(* inputs without a scheme or without its ':', some with the multi-byte code *)
(* points U+00E9, U+20AC and U+1F600                                        *)
NoSchemeInputs ==
    {<<>>, <<233>>, <<97, 233>>, <<97, 49, 8364>>, <<128512, 97, 58>>, <<97, 128512>>,
     Runes("1a:"), Runes("a b:"), Runes("ab/"), Runes("a-b.c+d"), Runes("/a:")}

Inputs ==
    TestInputs \cup SchemeInputs \cup AuthorityInputs \cup PathInputs \cup TailInputs
        \cup OtherInputs \cup UserInfoInputs \cup NoSchemeInputs

InitLoc ==
    [schemaRunes |-> <<>>, ihierPart_preIndex |-> 0, authStart |-> 0,
     iauthority_preIndex |-> 0, iuserInfo_preIndex |-> 0, ihost_preIndex |-> 0,
     iregName_preIndex |-> 0, ipathAbEmpty_startIndex |-> 0, ipathAbEmpty_i |-> 0,
     ipathAbsolute_startIndex |-> 0, ipathAbsolute_preIndex |-> 0, ipathAbsolute_i |-> 0,
     ipathRootless_preIndex |-> 0, isegment_preIndex |-> 0, isegmentNz_i |-> 0,
     isegmentNz_preIndex |-> 0, ipchar_preIndex |-> 0, iquery_startIndex |-> 0,
     iquery_preIndex |-> 0, ifragment_startIndex |-> 0, ifragment_preIndex |-> 0,
     port_count |-> 0, port_digits |-> <<>>, ipLiteral_preIndex |-> 0, h16Count |-> 0,
     postCount |-> 0, groupCount |-> 0, zeroCollapse |-> FALSE, prevColon |-> FALSE,
     hexCount |-> 0, octCount |-> 0, octetRunes |-> <<>>]

Init ==
    /\ value \in Inputs
    /\ p = newParser(value)
    /\ pc = "ParseIri"
    /\ stack = <<>>
    /\ loc = InitLoc
    /\ ret = Nil

Next ==
    \/ ParseIri \/ parse \/ parse_1 \/ iri \/ iri_1 \/ iri_2 \/ iri_3
    \/ schema \/ schema_loop
    \/ ihierPart \/ ihierPart_1 \/ ihierPart_2 \/ ihierPart_3 \/ ihierPart_4
    \/ ihierPart_5 \/ ihierPart_6
    \/ iauthority \/ iauthority_1 \/ iauthority_2 \/ iauthority_3 \/ iauthority_4
    \/ iuserInfo \/ iuserInfo_1 \/ iuserInfo_2
    \/ ihost \/ ihost_1 \/ ihost_2 \/ ihost_3
    \/ iregName \/ iregName_1 \/ iregName_2
    \/ ipathAbEmpty \/ ipathAbEmpty_loop \/ ipathAbEmpty_1 \/ ipathAbEmpty_end
    \/ ipathAbsolute \/ ipathAbsolute_1 \/ ipathAbsolute_loop \/ ipathAbsolute_2
    \/ ipathAbsolute_end
    \/ ipathRootless \/ ipathRootless_1 \/ ipathRootless_loop \/ ipathRootless_2
    \/ ipathEmpty
    \/ isegment \/ isegment_1 \/ isegmentNz \/ isegmentNz_loop \/ isegmentNz_1
    \/ ipchar \/ ipchar_1 \/ ipchar_2
    \/ iquery \/ iquery_loop \/ iquery_1 \/ iquery_2
    \/ ifragment \/ ifragment_loop \/ ifragment_1
    \/ iunreserved \/ iunreserved_1 \/ ucschar \/ iprivate
    \/ pctEncoded \/ pctEncoded_1 \/ pctEncoded_2
    \/ port \/ port_loop \/ port_end
    \/ ipLiteral \/ ipLiteral_1 \/ ipLiteral_2 \/ ipLiteral_3
    \/ ipvFuture \/ ipvFuture_loop \/ ipvFuture_1 \/ ipvFuture_post
    \/ ipv6Address \/ ipv6Address_loop \/ ipv6Address_1 \/ ipv6Address_2
    \/ h16 \/ h16_loop
    \/ ipv4Address \/ ipv4Address_loop \/ ipv4Address_1
    \/ decOctet \/ decOctet_2 \/ decOctet_3

Spec == Init /\ [][Next]_vars

(***************************************************************************)
(* The methods on their own, called as the unit tests call them:           *)
(* p := newParser(v); p.next(); p.method().  The return of the method is   *)
(* the state pc = "done".                                                  *)
(***************************************************************************)
UnitInit(m, vs) ==
    /\ value \in vs
    /\ p = next(newParser(value)).q
    /\ pc = m
    /\ stack = <<>>
    /\ loc = InitLoc
    /\ ret = Nil

RECURSIVE JoinWith(_, _)
JoinWith(ss, sep) ==
    IF ss = <<>> THEN <<>>
    ELSE IF Len(ss) = 1 THEN ss[1]
    ELSE ss[1] \o sep \o JoinWith(Tail(ss), sep)

(* ipv4Address and decOctet: up to MaxOctets octet texts joined by '.', and *)
(* every run of up to MaxDigits digits, alone or before '.', "x", ".x" or  *)
(* U+00E9                                                                  *)
MaxOctets == 4
MaxDigits == 4

OctetTexts == {Runes(x) : x \in {"0", "12", "255", "05", "256", "1234"}}

TestIpv4Inputs ==
    {Runes(x) : x \in {"1", "1.1", "1.1.1", "00.0.0.00", "256.0.0.1", "1234.0.0.1",
                       "999.9.1.0", "0.0.0.0", "1.1.1.1", "11.11.11.11", "255.255.255.255",
                       "1..1.1", "1.1.1.", ".1.1.1", "1.1.1.1.1", "1.1.1x1", "", "x"}}

Ipv4Inputs ==
    TestIpv4Inputs
        \cup {JoinWith(ss, Runes(".")) \o t : ss \in SeqsUpTo(OctetTexts, MaxOctets),
                                             t \in {<<>>, Runes("x")}}
        \cup {d \o t : d \in SeqsUpTo(RuneSet("01259"), MaxDigits),
                       t \in {Runes(x) : x \in {"", ".", "x", ".x"}} \cup {<<233>>}}

InitIpv4Address == UnitInit("ipv4Address", Ipv4Inputs)

NextIpv4Address ==
    \/ ipv4Address \/ ipv4Address_loop \/ ipv4Address_1
    \/ decOctet \/ decOctet_2 \/ decOctet_3

SpecIpv4Address == InitIpv4Address /\ [][NextIpv4Address]_vars

(***************************************************************************)
(* ipv6Address and h16: up to MaxGroups groups of one hex digit, each two  *)
(* consecutive groups separated by ':' or "::" (at most two "::"), after   *)
(* "", ':' or "::" and before "", ':', "::" or ']'; and a first group of   *)
(* several hex digits before such groups.                                  *)
(***************************************************************************)
MaxGroups == 8

GroupDigits == Runes("123456789abcdef")

(* the separators of k groups: 1 is ':', 2 is "::" *)
Separators(k) ==
    {f \in [1..(k - 1) -> {1, 2}] : Cardinality({i \in 1..(k - 1) : f[i] = 2}) <= 2}

Colons(n) == IF n = 1 THEN Runes(":") ELSE Runes("::")

RECURSIVE GroupsFrom(_, _, _)
GroupsFrom(i, k, f) ==
    IF i > k THEN <<>>
    ELSE <<GroupDigits[i]>> \o (IF i < k THEN Colons(f[i]) ELSE <<>>) \o GroupsFrom(i + 1, k, f)

TestIpv6Inputs ==
    {Runes(x) : x \in {":0db8:0000:0000:0000:ff00:0042:8329",
                       "2001:0db8:0000:0000:0000:ff00:0042:8329", "2001:db8::7]", "::1]"}}

Ipv6Inputs ==
    TestIpv6Inputs
        \cup UNION {{lead \o GroupsFrom(1, k, f) \o trail :
                         f \in Separators(k),
                         lead \in {Runes(x) : x \in {"", ":", "::"}},
                         trail \in {Runes(x) : x \in {"", ":", "::", "]"}}} :
                     k \in 0..MaxGroups}
        \cup {g \o Runes(":") \o GroupsFrom(2, k, [i \in 1..k |-> 1]) :
                  k \in 2..MaxGroups, g \in {Runes(x) : x \in {"1234", "12345", "abcdef", "g"}}}

InitIpv6Address == UnitInit("ipv6Address", Ipv6Inputs)

NextIpv6Address ==
    \/ ipv6Address \/ ipv6Address_loop \/ ipv6Address_1 \/ ipv6Address_2
    \/ h16 \/ h16_loop

SpecIpv6Address == InitIpv6Address /\ [][NextIpv6Address]_vars

(***************************************************************************)
(* pctEncoded: the inputs of TestPctEncoded and every string of up to      *)
(* MaxPct code points of "%4aFg" and U+00E9.                               *)
(***************************************************************************)
MaxPct == 4

TestPctInputs ==
    {Runes(x) : x \in {"%", "1", "%z", "%1", "%D", "%00", "%1d", "%C4", "%EE", "%ae",
                       "%129", "%122", "%ddd"}}

PctInputs == TestPctInputs \cup SeqsUpTo(RuneSet("%4aFg") \cup {233}, MaxPct)

InitPctEncoded == UnitInit("pctEncoded", PctInputs)

NextPctEncoded == pctEncoded \/ pctEncoded_1 \/ pctEncoded_2

SpecPctEncoded == InitPctEncoded /\ [][NextPctEncoded]_vars

(***************************************************************************)
(* iunreserved (with ucschar) and iprivate on one code point: the          *)
(* printable ASCII characters and the code points at and next to the       *)
(* limits of the ranges of ucschar and iprivate (U+00A0, U+D7FF, U+E000,   *)
(* U+F8FF, U+10000, U+1FFFD, U+E0000, U+EFFFD, U+F0000, U+FFFFD,           *)
(* U+100000, U+10FFFD), the surrogates left out: a Go string holds none.   *)
(***************************************************************************)
Near(r) == (r - 2)..(r + 2)

CodePoints ==
    (32..126) \cup Near(160) \cup {233, 8364} \cup (55290..55295) \cup (57344..57346)
        \cup Near(63743) \cup Near(65536) \cup Near(131069) \cup Near(917504)
        \cup Near(983037) \cup Near(983040) \cup Near(1048573) \cup Near(1048576)
        \cup (1114100..1114111)

CodePointInputs == {<<>>} \cup {<<r>> : r \in CodePoints} \cup {<<r, Ord("x")>> : r \in CodePoints}

InitIunreserved == UnitInit("iunreserved", CodePointInputs)

NextIunreserved == iunreserved \/ iunreserved_1 \/ ucschar

SpecIunreserved == InitIunreserved /\ [][NextIunreserved]_vars

InitIprivate == UnitInit("iprivate", CodePointInputs)

NextIprivate == iprivate

SpecIprivate == InitIprivate /\ [][NextIprivate]_vars

(***************************************************************************)
(* The result of ParseIri and the reading of an input by the generic       *)
(* syntax "scheme ':' ['//' authority] path ['?' query] ['#' fragment]",   *)
(* which the properties below compare the parser with.                     *)
(***************************************************************************)
Returned == pc = "done"
Succeeded == pc = "done" /\ ret.kind = "nil"
Failed == pc = "done" /\ ret.kind # "nil"

Letters == RuneSet("abcdefghijklmnopqrstuvwxyzABCDEFGHIJKLMNOPQRSTUVWXYZ")
Digits == RuneSet("0123456789")
HexDigits == Digits \cup RuneSet("abcdefABCDEF")
SchemeTail == Letters \cup Digits \cup RuneSet("+-.")
Unreserved == Letters \cup Digits \cup RuneSet("-._~")
PChars == Unreserved \cup RuneSet("!$&'()*+,;=") \cup RuneSet(":@")
(* ASCII characters that occur in no production of the grammar *)
Excluded == RuneSet(" <>\"{}|\\^")

(* the first position from `from` on of a code point of S, Len(v) + 1 if none *)
FirstPos(v, S, from) ==
    IF \E i \in from..Len(v) : v[i] \in S
    THEN CHOOSE i \in from..Len(v) : v[i] \in S /\ \A j \in from..(i - 1) : v[j] \notin S
    ELSE Len(v) + 1

(* the first position from `from` on of a code point outside S, Len(v) + 1 if none *)
FirstPosNotIn(v, S, from) ==
    IF \E i \in from..Len(v) : v[i] \notin S
    THEN CHOOSE i \in from..Len(v) : v[i] \notin S /\ \A j \in from..(i - 1) : v[j] \in S
    ELSE Len(v) + 1

ColonPos(v) == FirstPos(v, {Ord(":")}, 1)
HierStart(v) == ColonPos(v) + 1
HasAuthority(v) ==
    HierStart(v) + 1 <= Len(v) /\ v[HierStart(v)] = Ord("/") /\ v[HierStart(v) + 1] = Ord("/")
AuthStart(v) == HierStart(v) + 2
AuthEnd(v) == FirstPos(v, RuneSet("/?#"), AuthStart(v))
PathStart(v) == IF HasAuthority(v) THEN AuthEnd(v) ELSE HierStart(v)
PathEnd(v) == FirstPos(v, RuneSet("?#"), PathStart(v))
HashPos(v) == FirstPos(v, {Ord("#")}, PathStart(v))
HasQuery(v) == PathEnd(v) <= Len(v) /\ v[PathEnd(v)] = Ord("?")
HasFragment(v) == HashPos(v) <= Len(v)
SchemeOf(v) == SubSeq(v, 1, ColonPos(v) - 1)
AuthorityOf(v) == SubSeq(v, AuthStart(v), AuthEnd(v) - 1)
PathOf(v) == SubSeq(v, PathStart(v), PathEnd(v) - 1)
QueryOf(v) == SubSeq(v, PathEnd(v) + 1, HashPos(v) - 1)
FragmentOf(v) == SubSeq(v, HashPos(v) + 1, Len(v))

(***************************************************************************)
(* C1: ParseIri never panics: no state of a run is the panic of an index   *)
(* or a slice of the rune buffer out of range.                             *)
(***************************************************************************)
C1_NeverPanics == pc # "panic"

(***************************************************************************)
(* C2: every iteration of the greedy loops of iquery, ifragment, isegment, *)
(* iregName and iuserInfo that goes back to the head of its loop has       *)
(* advanced the cursor beyond the index at which the iteration began.      *)
(***************************************************************************)
LoopsBack(from, head) == pc \in from /\ pc' = head

C2_LoopsAdvance ==
    [][/\ LoopsBack({"iquery_1", "iquery_2"}, "iquery_loop") => p'.index > loc.iquery_preIndex
       /\ LoopsBack({"ifragment_1"}, "ifragment_loop") => p'.index > loc.ifragment_preIndex
       /\ LoopsBack({"isegment_1"}, "isegment") => p'.index > loc.isegment_preIndex
       /\ LoopsBack({"iregName_1", "iregName_2"}, "iregName") => p'.index > loc.iregName_preIndex
       /\ LoopsBack({"iuserInfo_1", "iuserInfo_2"}, "iuserInfo") => p'.index > loc.iuserInfo_preIndex
      ]_vars

(***************************************************************************)
(* C3: a successful ParseIri has consumed the whole input, and the input   *)
(* holds no code point that the grammar allows nowhere (a space, '<'), no  *)
(* '%' that is not followed by two hex digits and no '[' other than the    *)
(* one that opens the host.                                                *)
(***************************************************************************)
HasIllegal(v) ==
    \E i \in (ColonPos(v) + 1)..Len(v) :
        \/ v[i] \in Excluded
        \/ v[i] = Ord("%") /\ ~(i + 2 <= Len(v) /\ v[i + 1] \in HexDigits /\ v[i + 2] \in HexDigits)
        \/ v[i] = Ord("[") /\ ~(HasAuthority(v) /\ i = AuthStart(v))

C3_AllOrNothing == Succeeded => (~HasIllegal(value) /\ p.index >= Len(value))

Reconstructed(v, i) ==
    i.Scheme \o Runes(":")
        \o (IF HasAuthority(v) THEN Runes("//") \o i.Authority ELSE <<>>)
        \o i.Path
        \o (IF HasQuery(v) THEN Runes("?") \o i.Query ELSE <<>>)
        \o (IF HasFragment(v) THEN Runes("#") \o i.Fragment ELSE <<>>)


(***************************************************************************)
(* Well-formed inputs, by the grammar of the specification.                *)
(***************************************************************************)
AllIn(s, S) == \A i \in 1..Len(s) : s[i] \in S

IsScheme(s) == s # <<>> /\ s[1] \in Letters /\ \A i \in 2..Len(s) : s[i] \in SchemeTail

RECURSIVE Decimal(_)
Decimal(ds) ==
    IF ds = <<>> THEN 0 ELSE 10 * Decimal(SubSeq(ds, 1, Len(ds) - 1)) + (ds[Len(ds)] - Ord("0"))

IsPort(n) == n # <<>> /\ AllIn(n, Digits) /\ Len(n) <= 5 /\ Decimal(n) <= 65535

(* the position in an authority of the ':' that only digits follow, 0 if none *)
PortPos(t) ==
    IF \E k \in 1..Len(t) : t[k] = Ord(":") /\ AllIn(SubSeq(t, k + 1, Len(t)), Digits)
    THEN CHOOSE k \in 1..Len(t) : t[k] = Ord(":") /\ AllIn(SubSeq(t, k + 1, Len(t)), Digits)
    ELSE 0

HostOf(t) == IF PortPos(t) > 0 THEN SubSeq(t, 1, PortPos(t) - 1) ELSE t
PortOf(t) == IF PortPos(t) > 0 THEN SubSeq(t, PortPos(t) + 1, Len(t)) ELSE <<>>

RegNameChars == Unreserved \cup RuneSet("!$&'()*+,;=")
Ipv6Literals == {Runes(h) : h \in {"[::1]", "[1:2:3:4:5:6:7:8]", "[2001:db8::7]"}}

(* a non-empty registered name (an IPv4 address is one) or a bracketed IPv6 literal *)
IsHost(h) == (h # <<>> /\ AllIn(h, RegNameChars)) \/ h \in Ipv6Literals

IsHostPort(t) == IsHost(HostOf(t)) /\ (PortPos(t) = 0 \/ IsPort(PortOf(t)))

QueryChars == PChars \cup RuneSet("/?") \cup (57344..63743)
FragmentChars == PChars \cup RuneSet("/?")

WellFormed(v) ==
    /\ ColonPos(v) <= Len(v)
    /\ IsScheme(SchemeOf(v))
    /\ HasAuthority(v) => IsHostPort(AuthorityOf(v))
    /\ AllIn(PathOf(v), PChars \cup RuneSet("/"))
    /\ HasQuery(v) => AllIn(QueryOf(v), QueryChars)
    /\ HasFragment(v) => AllIn(FragmentOf(v), FragmentChars)
    /\ ~HasQuery(v) => PathEnd(v) = HashPos(v)

(***************************************************************************)
(* C4: after a successful ParseIri, Value is the input and the components  *)
(* with their delimiters, concatenated in order, are Value.  Stated for    *)
(* the well-formed inputs, so that a violation does not rest on the        *)
(* acceptance of an input that should have been rejected (C3).             *)
(***************************************************************************)
C4_Reconstructs ==
    (Succeeded /\ WellFormed(value)) =>
        (p.instance.Value = value /\ Reconstructed(value, p.instance) = p.instance.Value)

(***************************************************************************)
(* C5: after a successful ParseIri, Scheme is a letter followed by         *)
(* letters, digits, '+', '-' and '.', and it is the input up to its first  *)
(* ':'; an input that does not begin with a letter, or whose scheme        *)
(* characters are not followed by ':', is rejected with an error, by       *)
(* schema or by the check of the ':', before any other production runs.    *)
(***************************************************************************)
BadScheme(v) ==
    \/ v = <<>>
    \/ v[1] \notin Letters
    \/ LET k == FirstPosNotIn(v, SchemeTail, 2) IN k > Len(v) \/ v[k] # Ord(":")

SchemePcs == {"ParseIri", "parse", "iri", "schema", "schema_loop", "iri_1", "parse_1", "done"}

C5_Scheme ==
    /\ Succeeded => /\ IsScheme(p.instance.Scheme)
                    /\ ColonPos(value) <= Len(value)
                    /\ p.instance.Scheme = SchemeOf(value)
    /\ BadScheme(value) => (pc \in SchemePcs /\ (Returned => ret.kind # "nil"))

C5_Witness ==
    /\ Succeeded
    /\ Len(p.instance.Scheme) >= 2
    /\ \E i \in 2..Len(p.instance.Scheme) : p.instance.Scheme[i] \in Digits \cup RuneSet("+-.")

(***************************************************************************)
(* C6: for a well-formed input "scheme://host[:port][/path][?query]" or    *)
(* "scheme:rootless-path", ParseIri does not panic and returns success     *)
(* with Scheme the input before its first ':' and, when there is an        *)
(* authority, a non-empty Authority.                                       *)
(***************************************************************************)
IsRootless(v) ==
    /\ ~HasAuthority(v)
    /\ PathOf(v) # <<>>
    /\ PathOf(v)[1] # Ord("/")

C6_Forms(v) ==
    /\ WellFormed(v)
    /\ ~HasFragment(v)
    /\ HasAuthority(v) \/ (IsRootless(v) /\ ~HasQuery(v))

C6_WellFormedParses ==
    C6_Forms(value) =>
        /\ pc # "panic"
        /\ Returned => /\ ret.kind = "nil"
                       /\ p.instance.Scheme = SchemeOf(value)
                       /\ HasAuthority(value) => p.instance.Authority # <<>>

(***************************************************************************)
(* C7: after a successful ParseIri of "scheme://...", Authority holds no   *)
(* '/', '?' or '#'; for a well-formed input "scheme://host/path" (no port) *)
(* the Authority is the input between "//" and the first '/', '?' or '#',  *)
(* and Path starts there.                                                  *)
(***************************************************************************)
C7_AuthorityStops ==
    (Succeeded /\ HasAuthority(value)) =>
        /\ \A i \in 1..Len(p.instance.Authority) : p.instance.Authority[i] \notin RuneSet("/?#")
        /\ (WellFormed(value) /\ PortPos(AuthorityOf(value)) = 0) =>
               /\ p.instance.Authority = AuthorityOf(value)
               /\ p.instance.Path = PathOf(value)

(***************************************************************************)
(* C8: when iauthority returns for an authority "host:port" of a           *)
(* well-formed input, with a port of one to five digits of value at most   *)
(* 65535, Authority is "host:port" and the cursor is on the character      *)
(* right after the last digit of the port; a port of more than five digits *)
(* or above 65535 is not taken into Authority.                             *)
(***************************************************************************)
AfterAuthority == pc = "ihierPart_1"

C8_PortConsumed ==
    (AfterAuthority /\ HasAuthority(value) /\ PortPos(AuthorityOf(value)) > 0
        /\ IsHost(HostOf(AuthorityOf(value))) /\ PortOf(AuthorityOf(value)) # <<>>) =>
        IF IsPort(PortOf(AuthorityOf(value)))
        THEN /\ p.instance.Authority = AuthorityOf(value)
             /\ p.index = AuthEnd(value) - 1
        ELSE p.instance.Authority # AuthorityOf(value)

(***************************************************************************)
(* C9: after a successful ParseIri of a well-formed input, Query is the    *)
(* text between the '?' and the '#' (or the end) when the input has a      *)
(* query, and Fragment is the text after the '#' when it has a fragment.   *)
(***************************************************************************)
C9_QueryAndFragment ==
    (Succeeded /\ WellFormed(value)) =>
        /\ HasQuery(value) => p.instance.Query = QueryOf(value)
        /\ HasFragment(value) => p.instance.Fragment = FragmentOf(value)

(***************************************************************************)
(* C10: for a well-formed input "scheme:" p with p a rootless path,        *)
(* ParseIri does not panic and succeeds with Path equal to p; after any    *)
(* successful parse of a well-formed input, Path is the path of the input. *)
(***************************************************************************)
C10_RootlessPath ==
    /\ (WellFormed(value) /\ IsRootless(value)) =>
           (pc # "panic" /\ (Returned => (ret.kind = "nil" /\ p.instance.Path = PathOf(value))))
    /\ (WellFormed(value) /\ Succeeded) => p.instance.Path = PathOf(value)

(***************************************************************************)
(* Decimal octets and IPv4 addresses as the specification reads them: an   *)
(* octet is a maximal run of one to three digits, without a leading zero   *)
(* unless it is "0", of value at most 255.  Positions are counted from 1.  *)
(***************************************************************************)
DigitRun(v, i) == FirstPosNotIn(v, Digits, i) - i

IsDecOctet(ds) ==
    /\ Len(ds) \in 1..3
    /\ AllIn(ds, Digits)
    /\ Len(ds) > 1 => ds[1] # Ord("0")
    /\ Decimal(ds) <= 255

OctetAt(v, i) == IsDecOctet(SubSeq(v, i, i + DigitRun(v, i) - 1))

(* the position after k octets from position i on, separated by single '.', 0 if none *)
RECURSIVE OctetsEnd(_, _, _)
OctetsEnd(v, i, k) ==
    IF ~OctetAt(v, i) THEN 0
    ELSE LET j == i + DigitRun(v, i) IN
         IF k = 1 THEN j
         ELSE IF j <= Len(v) /\ v[j] = Ord(".") THEN OctetsEnd(v, j + 1, k - 1)
         ELSE 0

BeginsWithIpv4(v) == OctetsEnd(v, 1, 4) > 0

(* decOctet has returned to ipv4Address; loc.octCount octets were read before it *)
AfterDecOctet == pc = "ipv4Address_1"

C14_OctetCursor ==
    /\ (AfterDecOctet /\ ret.kind = "nil") =>
           p.index = OctetsEnd(value, 1, loc.octCount + 1) - 1
    /\ (Succeeded /\ BeginsWithIpv4(value)) => p.index = OctetsEnd(value, 1, 4) - 1

(***************************************************************************)
(* IPv6 addresses as the specification reads them: h16 groups of one to    *)
(* four hex digits, a single ':' between two consecutive groups, and "::"  *)
(* for the groups left out.                                                *)
(***************************************************************************)
HexRun(v, i) == FirstPosNotIn(v, HexDigits, i) - i

DoubleColons(v) == {i \in 1..(Len(v) - 1) : v[i] = Ord(":") /\ v[i + 1] = Ord(":")}

(* the positions where a group (a run of hex digits) begins *)
GroupStarts(v) ==
    {i \in 1..Len(v) : v[i] \in HexDigits /\ (i = 1 \/ v[i - 1] \notin HexDigits)}

(* k groups from position i on with single ':' between them; the last group *)
(* may be the beginning of a longer run when `whole` is FALSE               *)
RECURSIVE GroupsAt(_, _, _, _)
GroupsAt(v, i, k, whole) ==
    LET n == HexRun(v, i) IN
    IF k = 1 THEN n >= 1 /\ (whole => n <= 4)
    ELSE /\ n \in 1..4
         /\ i + n <= Len(v)
         /\ v[i + n] = Ord(":")
         /\ GroupsAt(v, i + n + 1, k - 1, whole)

(***************************************************************************)
(* C15: for an input without "::", ipv6Address does not panic, returns     *)
(* success when the input begins with eight groups of one to four hex      *)
(* digits separated by single ':', and returns success only when the input *)
(* begins with eight groups separated by single ':' (so not after a lone   *)
(* ':' before the first group, not with a ':' missing between two groups,  *)
(* not with fewer than eight groups).                                      *)
(***************************************************************************)
C15_EightGroups ==
    DoubleColons(value) = {} =>
        /\ pc # "panic"
        /\ Returned => /\ GroupsAt(value, 1, 8, TRUE) => ret.kind = "nil"
                       /\ ret.kind = "nil" => GroupsAt(value, 1, 8, FALSE)

(***************************************************************************)
(* C16: for an address of fewer than eight groups of one to four hex       *)
(* digits, separated by ':' or "::", that neither begins nor ends with a   *)
(* lone ':', ipv6Address returns success if and only if the address holds  *)
(* exactly one "::".                                                       *)
(***************************************************************************)
IsShortAddress(v) ==
    /\ AllIn(v, HexDigits \cup {Ord(":")})
    /\ \A i \in GroupStarts(v) : HexRun(v, i) <= 4
    /\ Cardinality(GroupStarts(v)) < 8
    /\ \A i \in DoubleColons(v) : i + 1 \notin DoubleColons(v)
    /\ v # <<>> => /\ v[1] = Ord(":") => 1 \in DoubleColons(v)
                   /\ v[Len(v)] = Ord(":") => (Len(v) - 1) \in DoubleColons(v)

C16_ZeroCollapse ==
    (IsShortAddress(value) /\ Returned) =>
        (ret.kind = "nil" <=> Cardinality(DoubleColons(value)) = 1)

(***************************************************************************)
(* C17: pctEncoded, called with the cursor at the start of the input, does *)
(* not panic; it returns success exactly when the first three code points  *)
(* are '%', a hex digit and a hex digit, with the cursor then three        *)
(* positions further; otherwise it returns an error with the cursor on the *)
(* first of the three positions that does not conform, also when the input *)
(* ends there.                                                             *)
(***************************************************************************)
PctConforms(v, i) ==
    /\ i <= Len(v)
    /\ IF i = 1 THEN v[i] = Ord("%") ELSE v[i] \in HexDigits

(* the first of the positions 1, 2, 3 that does not conform, 4 if all do *)
PctFirstBad(v) ==
    IF \E i \in 1..3 : ~PctConforms(v, i)
    THEN CHOOSE i \in 1..3 : ~PctConforms(v, i) /\ \A j \in 1..(i - 1) : PctConforms(v, j)
    ELSE 4

InUcschar(r) ==
    \/ (160 <= r /\ r <= 55295)
    \/ \E k \in 1..14 : (k * 65536 <= r /\ r <= k * 65536 + 65533)

InIprivate(r) ==
    \/ (57344 <= r /\ r <= 63743)
    \/ (983040 <= r /\ r <= 1048573)
    \/ (1048576 <= r /\ r <= 1114109)

(* the code point at the cursor of a method called at the start of the input *)
FirstRune == IF value = <<>> THEN 0 ELSE value[1]

(***************************************************************************)
(* C19: iunreserved, called on a code point, does not panic; it returns    *)
(* success with the cursor one position further when the code point is a   *)
(* letter, a digit, '-', '.', '_', '~' or a ucschar, and an error for      *)
(* every other code point and at the end of the input.                     *)
(***************************************************************************)
C19_Iunreserved ==
    /\ pc # "panic"
    /\ Returned =>
           IF value # <<>> /\ (FirstRune \in Unreserved \/ InUcschar(FirstRune))
           THEN ret.kind = "nil" /\ p.index = 1
           ELSE ret.kind # "nil"

(***************************************************************************)
(* C20: iprivate, called on a code point, returns success exactly when the *)
(* code point lies in U+E000..U+F8FF, U+F0000..U+FFFFD or                   *)
(* U+100000..U+10FFFD, and an error otherwise.                             *)
(***************************************************************************)
C20_Iprivate ==
    /\ pc # "panic"
    /\ Returned => (ret.kind = "nil" <=> (value # <<>> /\ InIprivate(FirstRune)))

(***************************************************************************)
(* C11: in every state of a run of ParseIri the cursor index is -1 or lies *)
(* between 0 and the number of code points of the input, and the length    *)
(* field of the parser is that number.                                     *)
(***************************************************************************)
C11_CursorInRange ==
    /\ p.index = -1 \/ (0 <= p.index /\ p.index <= Len(value))
    /\ p.length = Len(value)

(***************************************************************************)
(* C12: an error returned by ParseIri is an IriError; its index is the     *)
(* position of the cursor, between 0 and the number of code points of the  *)
(* input, and its char is the code point of the input at that index, or 0  *)
(* when the index is the end of the input.                                 *)
(***************************************************************************)
C12_ErrorPosition ==
    Failed =>
        /\ ret.kind = "IriError"
        /\ ret.index = p.index
        /\ 0 <= ret.index /\ ret.index <= Len(value)
        /\ ret.char = IF ret.index < Len(value) THEN value[ret.index + 1] ELSE 0

(* an error on a multi-byte code point that is not the first of the input *)
C12_Witness ==
    /\ Failed
    /\ ret.index > 0
    /\ ret.index < Len(value)
    /\ ret.char = value[ret.index + 1]
    /\ ret.char > 127

(***************************************************************************)
(* C18: when iuserInfo has returned to iauthority, either it returned      *)
(* success with the cursor on '@', or iauthority goes on to ihost with the *)
(* cursor back on the first code point after "//".                         *)
(***************************************************************************)
AfterUserInfo == pc = "iauthority_1"

UserInfoFound == ret.kind = "nil" /\ p.index < Len(value) /\ value[p.index + 1] = Ord("@")

C18_Rollback ==
    [][(AfterUserInfo /\ ~UserInfoFound) =>
           (pc' = "ihost" /\ HasAuthority(value) /\ p'.index = AuthStart(value) - 1)]_vars

(* ihost begins at the start of the authority after a user info that advanced *)
C18_Witness ==
    /\ pc = "ihost"
    /\ p.index = AuthStart(value) - 1
    /\ loc.iuserInfo_preIndex > loc.authStart
    /\ \A i \in AuthStart(value)..Len(value) : value[i] # Ord("@")

====
